---- MODULE Spec2Model ----
(***************************************************************************)
(* FinBot: the session-scoped retrieval engine of app/services/            *)
(* rag_service.py (class RAGService and the module-level SESSION_STORES)   *)
(* and the request handlers of app/main.py that drive it.                  *)
(*                                                                         *)
(* Spec     : a client holds RAGService instances and calls their methods  *)
(*            one at a time (construct, query, add_documents, clear).      *)
(* SpecHTTP : requests run the handlers of app/main.py as coroutines on    *)
(*            the single asyncio event loop; control changes hands only    *)
(*            at an await that suspends.                                   *)
(***************************************************************************)
EXTENDS Integers, Sequences, FiniteSets, TLC

VARIABLES
    SESSION_STORES,  \* rag_service.py:15  session id -> {index, documents_metadata, initialized}
    svc,             \* RAGService instances held by the client: handle -> self.session_id
    ret,             \* outcome of the last method call (return value or raised exception)
    req,             \* SpecHTTP: request slot -> the coroutine's frame (position and locals)
    running          \* SpecHTTP: the request the event loop is executing, Nobody when none

vars == <<SESSION_STORES, svc, ret, req, running>>

---------------------------------------------------------------------------
(* Bounds of the model *)

MaxAdded == 2        \* index rows all sessions hold beyond their sample rows
MaxK == 12           \* the largest max_results a query asks for

---------------------------------------------------------------------------
(* Texts.  A text is named by a string; TextLen gives its length in        *)
(* characters and EdgeSpace the number of those that are leading or        *)
(* trailing whitespace.  "faq1".."faq10" are the ten sample_docs; "A", "B",*)
(* "tiny", "fifty" and "padded" are chunks of added documents; "q1" and    *)
(* "q2" are questions.                                                     *)

SessionIds == {"s1", "s2"}
Handles == {"h1"}
Reqs == {"r1", "r2"}
NoSvc == "none"
Nobody == "nobody"

sample_docs ==
    <<"faq1", "faq2", "faq3", "faq4", "faq5", "faq6", "faq7", "faq8", "faq9", "faq10">>

Questions == {"q1", "q2"}

TextLen(t) ==
    CASE t = "faq1" -> 125 [] t = "faq2" -> 108 [] t = "faq3" -> 118
      [] t = "faq4" -> 126 [] t = "faq5" -> 121 [] t = "faq6" -> 120
      [] t = "faq7" -> 130 [] t = "faq8" -> 119 [] t = "faq9" -> 102
      [] t = "faq10" -> 112
      [] t = "A" -> 60 [] t = "B" -> 60
      [] t = "tiny" -> 10 [] t = "fifty" -> 50 [] t = "padded" -> 60
      [] t = "\n" -> 1
      [] OTHER -> 20

EdgeSpace(t) == IF t = "padded" THEN 12 ELSE 0

(* SentenceTransformer.encode: a deterministic map from a text to a vector *)
(* of fixed dimension.  Two dimensions stand for the model's 384; the map  *)
(* is injective on the texts of the model.                                 *)
Dimension == 2

EncodeOne(t) ==
    CASE t = "faq1" -> <<1, 10>> [] t = "faq2" -> <<2, 9>> [] t = "faq3" -> <<3, 8>>
      [] t = "faq4" -> <<4, 7>> [] t = "faq5" -> <<5, 6>> [] t = "faq6" -> <<6, 5>>
      [] t = "faq7" -> <<7, 4>> [] t = "faq8" -> <<8, 3>> [] t = "faq9" -> <<9, 2>>
      [] t = "faq10" -> <<10, 1>>
      [] t = "A" -> <<12, 1>> [] t = "B" -> <<1, 12>>
      [] t = "q1" -> <<1, 0>> [] t = "q2" -> <<1, 1>>
      [] OTHER -> <<0, 0>>

encode(texts) == [i \in 1..Len(texts) |-> EncodeOne(texts[i])]

Dot(u, v) == u[1] * v[1] + u[2] * v[2]

Min(a, b) == IF a < b THEN a ELSE b

---------------------------------------------------------------------------
(* faiss.IndexFlatIP: an append-only list of rows, searched by inner       *)
(* product.  None (no index) is the record with isNone = TRUE.             *)

None == [isNone |-> TRUE, d |-> 0, xb |-> <<>>]
IndexFlatIP(dimension) == [isNone |-> FALSE, d |-> dimension, xb |-> <<>>]

ntotal(index) == Len(index.xb)

IndexAdd(index, vectors) == [index EXCEPT !.xb = index.xb \o vectors]

(* search pads the result to exactly k entries: a missing neighbour has    *)
(* label -1 and the lowest score.                                          *)
PadScore == -1000000
PadLabel == -1

RowScores(index, q) == [row \in 1..ntotal(index) |-> Dot(index.xb[row], q)]

(* the best remaining row: highest inner product, lowest row on a tie *)
BestRow(score, rows) ==
    CHOOSE i \in rows : \A j \in rows :
        score[i] > score[j] \/ (score[i] = score[j] /\ i <= j)

RECURSIVE TopRows(_, _, _)
TopRows(score, rows, k) ==
    IF k = 0 \/ rows = {} THEN <<>>
    ELSE LET b == BestRow(score, rows)
         IN <<b>> \o TopRows(score, rows \ {b}, k - 1)

Padded(top, score, k) ==
    [scores  |-> [i \in 1..k |-> IF i <= Len(top) THEN score[top[i]] ELSE PadScore],
     indices |-> [i \in 1..k |-> IF i <= Len(top) THEN top[i] - 1 ELSE PadLabel]]

IndexSearch(index, q, k) ==
    LET score == RowScores(index, q)
    IN Padded(TopRows(score, DOMAIN score, k), score, k)

---------------------------------------------------------------------------
(* Session storage *)

Live == DOMAIN SESSION_STORES

Put(stores, sid, entry) ==
    [s \in (DOMAIN stores) \cup {sid} |-> IF s = sid THEN entry ELSE stores[s]]

(* a variant of the removal that empties the entry and leaves it in the store *)
RemoveKeepingKey(stores, sid) ==
    [stores EXCEPT ![sid].index = None, ![sid].documents_metadata = <<>>]

Remove(stores, sid) == [s \in (DOMAIN stores) \ {sid} |-> stores[s]]

EmptyEntry == [index |-> None, documents_metadata |-> <<>>, initialized |-> FALSE]

ChunkRecord(text, source) == [text |-> text, source |-> source]

SampleMetadata == [i \in 1..Len(sample_docs) |-> ChunkRecord(sample_docs[i], "FAQ")]

(* a variant that keeps one index and one metadata list for all sessions:  *)
(* seeding a session resets every entry of the store                       *)
CreateSampleIndexForAll(stores, sid) ==
    [s \in DOMAIN stores |->
        [stores[s] EXCEPT !.index = IndexAdd(IndexFlatIP(Dimension), encode(sample_docs)),
                          !.documents_metadata = SampleMetadata]]

(* _create_sample_index: a new index holding the sample embeddings, then   *)
(* the sample metadata, both stored in the session's entry.                *)
CreateSampleIndex(stores, sid) ==
    LET embeddings == encode(sample_docs)
        index == IndexAdd(IndexFlatIP(Dimension), embeddings)
    IN [stores EXCEPT ![sid].index = index,
                      ![sid].documents_metadata = SampleMetadata]

(* init_session_store *)
EnsureEntry(stores, sid) ==
    IF sid \notin DOMAIN stores THEN Put(stores, sid, EmptyEntry) ELSE stores

(* a variant that seeds on every reference, without looking at 'initialized' *)
InitSessionStoreReseeding(stores, sid) ==
    [CreateSampleIndex(EnsureEntry(stores, sid), sid) EXCEPT ![sid].initialized = TRUE]

InitSessionStore(stores, sid) ==
    LET s1 == EnsureEntry(stores, sid)
    IN IF ~s1[sid].initialized
       THEN [CreateSampleIndex(s1, sid) EXCEPT ![sid].initialized = TRUE]
       ELSE s1

---------------------------------------------------------------------------
(* Python sequence access: a negative subscript counts from the end.       *)
PyItem(seq, idx) == IF idx >= 0 THEN seq[idx + 1] ELSE seq[Len(seq) + idx + 1]

RECURSIVE SumSeq(_)
SumSeq(s) == IF s = <<>> THEN 0 ELSE Head(s) + SumSeq(Tail(s))

(* A float is kept exact, as the fraction sum / n.                         *)
Zero == [sum |-> 0, n |-> 1]
Mean(scores) == IF Len(scores) > 0 THEN [sum |-> SumSeq(scores), n |-> Len(scores)] ELSE Zero
SameFloat(a, b) == a.sum * b.n = b.sum * a.n

(* A text built of pieces keeps, for each piece, the text it comes from    *)
(* and how many of its leading characters are present.                     *)
Piece(t, chars) == [text |-> t, chars |-> chars]

RECURSIVE JoinLines(_)
JoinLines(docs) ==
    IF docs = <<>> THEN <<>>
    ELSE IF Len(docs) = 1 THEN <<Piece(docs[1], TextLen(docs[1]))>>
    ELSE <<Piece(docs[1], TextLen(docs[1])), Piece("\n", 1)>> \o JoinLines(Tail(docs))

(* text[:limit] *)
RECURSIVE Prefix(_, _)
Prefix(ps, limit) ==
    IF ps = <<>> \/ limit <= 0 THEN <<>>
    ELSE <<Piece(Head(ps).text, Min(Head(ps).chars, limit))>>
         \o Prefix(Tail(ps), limit - Head(ps).chars)

PreviewChars == 200

---------------------------------------------------------------------------
(* Error messages are sequences of words; `x in msg` is the presence of    *)
(* the word, msg.lower() lowers each word.                                 *)

Lower(w) == IF w = "Quota" THEN "quota" ELSE w
LowerMsg(msg) == [i \in 1..Len(msg) |-> Lower(msg[i])]
Contains(msg, w) == \E i \in 1..Len(msg) : msg[i] = w

(* "API key" in msg *)
HasApiKey(msg) ==
    \E i \in 1..(Len(msg) - 1) : msg[i] = "API" /\ msg[i + 1] \in {"key", "key."}

MsgKeyRequired == <<"API", "key", "is", "required">>
MsgNoModel == <<"Could", "not", "initialize", "any", "Gemini", "model.", "Please", "check", "your", "API", "key.">>
MsgKeyError == <<"KeyError">>

(* __init__: the model preference order *)
models_to_try ==
    <<"models/gemini-2.0-flash", "models/gemini-2.0-flash-001", "models/gemini-2.5-flash",
      "models/gemini-flash-latest", "models/gemini-2.0-flash-lite",
      "models/gemini-2.0-flash-lite-001", "models/gemini-flash-lite-latest",
      "models/gemini-2.5-pro", "models/gemini-pro-latest">>

(* a variant that gives up at the first candidate that fails               *)
TryModelsWithoutFallback(i, ctorFails, tried) ==
    IF i > Len(models_to_try) \/ models_to_try[i] \in ctorFails
    THEN [ok |-> FALSE, model |-> "", error |-> MsgNoModel,
          tried |-> IF i > Len(models_to_try) THEN tried ELSE Append(tried, models_to_try[i])]
    ELSE [ok |-> TRUE, model |-> models_to_try[i], error |-> <<>>,
          tried |-> Append(tried, models_to_try[i])]

(* _get_llm_with_api_key, lines 43-53: the loop over models_to_try from     *)
(* candidate i on.  ctorFails: the candidates whose construction raises;   *)
(* tried: the candidates whose construction was attempted so far.  The     *)
(* result is the model built, or the ValueError raised after the loop.     *)
RECURSIVE TryModels(_, _, _)
TryModels(i, ctorFails, tried) ==
    IF i > Len(models_to_try)
    THEN [ok |-> FALSE, model |-> "", error |-> MsgNoModel, tried |-> tried]
    ELSE IF models_to_try[i] \in ctorFails
    THEN TryModels(i + 1, ctorFails, Append(tried, models_to_try[i]))
    ELSE [ok |-> TRUE, model |-> models_to_try[i], error |-> <<>>,
          tried |-> Append(tried, models_to_try[i])]

NoLlm == [ok |-> FALSE, model |-> "", error |-> <<>>, tried |-> <<>>]

(* _get_llm_with_api_key *)
GetLlmWithApiKey(api_key, ctorFails) ==
    IF api_key = "" THEN [NoLlm EXCEPT !.error = MsgKeyRequired]
    ELSE TryModels(1, ctorFails, <<>>)

(* What the generation model does with the call: "ok", or llm.invoke       *)
(* raises msg ("invoke"), or the reply's content has no strip ("strip").   *)
GenOk == [kind |-> "ok", msg |-> <<>>]
GenRaises(msg) == [kind |-> "invoke", msg |-> msg]
GenNoStrip == [kind |-> "strip", msg |-> <<"'list'", "object", "has", "no", "attribute", "'strip'">>]

Msg429 == <<"429", "Resource", "has", "been", "exhausted">>
MsgQuota == <<"Quota", "exceeded", "for", "metric">>
Msg500 == <<"500", "Internal", "error">>

Envs ==
    { [api_key |-> "",    ctorFails |-> {}, gen |-> GenOk],
      [api_key |-> "key", ctorFails |-> {}, gen |-> GenOk],
      [api_key |-> "key", ctorFails |-> {models_to_try[1], models_to_try[2]}, gen |-> GenOk],
      [api_key |-> "key", ctorFails |-> {models_to_try[i] : i \in 1..Len(models_to_try)}, gen |-> GenOk],
      [api_key |-> "key", ctorFails |-> {}, gen |-> GenRaises(Msg429)],
      [api_key |-> "key", ctorFails |-> {}, gen |-> GenRaises(MsgQuota)],
      [api_key |-> "key", ctorFails |-> {models_to_try[1]}, gen |-> GenRaises(Msg500)],
      [api_key |-> "key", ctorFails |-> {}, gen |-> GenNoStrip] }

---------------------------------------------------------------------------
(* The outcome of a call: what it returned or the exception it raised.     *)

NoAnswer == [kind |-> "", model |-> "", context |-> <<>>, question |-> "", error |-> <<>>]

NoRet ==
    [op |-> "", h |-> "", session |-> "", outcome |-> "", error |-> <<>>, count |-> 0,
     answer |-> NoAnswer, sources |-> <<>>, confidence |-> Zero,
     question |-> "", k |-> 0, documents |-> <<>>, doc_sources |-> <<>>,
     existed |-> FALSE, gen |-> GenOk, hits |-> <<>>, cleared_rows |-> 0,
     api_key |-> "", ctor_fails |-> {}, llm |-> NoLlm, invocations |-> 0]

Returned(r) == [r EXCEPT !.outcome = "returned"]
Raised(r, msg) == [r EXCEPT !.outcome = "raised", !.error = msg]

(* query, lines 131-139: the documents the search's labels select *)
RECURSIVE Hits(_, _)
Hits(metadata, indices) ==
    IF indices = <<>> THEN <<>>
    ELSE (IF Head(indices) < Len(metadata) THEN <<Head(indices)>> ELSE <<>>)
         \o Hits(metadata, Tail(indices))

RelevantDocs(metadata, indices) ==
    LET hits == Hits(metadata, indices)
    IN [i \in 1..Len(hits) |-> PyItem(metadata, hits[i])]

Texts(docs) == [i \in 1..Len(docs) |-> docs[i].text]
Sources(docs) == [i \in 1..Len(docs) |-> docs[i].source]

(* a variant that lets the exception out of query                          *)
ApologyReraised(r, error_msg) == Raised(r, error_msg)

(* query, lines 182-187: the answer to an error that is not a rate limit   *)
ApologyResult(r, error_msg) ==
    Returned([r EXCEPT !.answer = [NoAnswer EXCEPT !.kind = "apology", !.error = error_msg],
                       !.sources = <<>>,
                       !.confidence = Zero])

(* query, lines 155-188: generation and the classification of its errors.  *)
(* llm.invoke is called once, on the model _get_llm_with_api_key built;    *)
(* `confidence` is bound at line 168, after llm.invoke has returned.       *)
Generate(r0, context, sources, scores, question, env) ==
    LET llm == GetLlmWithApiKey(env.api_key, env.ctorFails)
        r == [r0 EXCEPT !.api_key = env.api_key, !.ctor_fails = env.ctorFails,
                        !.llm = llm, !.invocations = IF llm.ok THEN 1 ELSE 0]
        raisedBeforeConfidence == ~llm.ok \/ env.gen.kind = "invoke"
        raised == raisedBeforeConfidence \/ env.gen.kind = "strip"
        error_msg == IF ~llm.ok THEN llm.error ELSE env.gen.msg
        confidence == Mean(scores)
    IN IF ~raised
       THEN Returned([r EXCEPT
                !.answer = [NoAnswer EXCEPT !.kind = "generated", !.model = llm.model,
                                            !.context = context, !.question = question],
                !.sources = sources,
                !.confidence = confidence])
       ELSE IF Contains(error_msg, "429") \/ Contains(LowerMsg(error_msg), "quota")
       THEN Returned([r EXCEPT
                !.answer = [NoAnswer EXCEPT !.kind = "quota_preview",
                                            !.context = Prefix(context, PreviewChars)],
                !.sources = sources,
                !.confidence = IF raisedBeforeConfidence THEN Zero ELSE confidence])
       ELSE ApologyResult(r, error_msg)

(* query *)
QueryOutcome(stores, h, sid, question, max_results, env) ==
    LET r == [NoRet EXCEPT !.op = "query", !.h = h, !.session = sid,
                           !.question = question, !.k = max_results,
                           !.existed = sid \in DOMAIN stores, !.gen = env.gen]
    IN IF sid \notin DOMAIN stores THEN Raised(r, MsgKeyError)
       ELSE IF stores[sid].index.isNone
       THEN Returned([r EXCEPT !.answer = [NoAnswer EXCEPT !.kind = "no_documents"],
                               !.sources = <<>>, !.confidence = Zero])
       ELSE LET found == IndexSearch(stores[sid].index, EncodeOne(question), max_results)
                docs == RelevantDocs(stores[sid].documents_metadata, found.indices)
                context == JoinLines(Texts(docs))
                rq == [r EXCEPT !.hits = Hits(stores[sid].documents_metadata, found.indices)]
            IN Generate(rq, context, Sources(docs), found.scores, question, env)

(* a variant that builds a new index on every call instead of only when    *)
(* the session has none                                                    *)
AddToIndexAlwaysNew(stores, sid, documents) ==
    [stores EXCEPT ![sid].index = IndexAdd(IndexFlatIP(Dimension), encode(documents))]

(* add_documents, lines 195-206: the embeddings are appended to the index  *)
AddToIndex(stores, sid, documents) ==
    LET new_embeddings == encode(documents)
        index == IF stores[sid].index.isNone THEN IndexFlatIP(Dimension)
                 ELSE stores[sid].index
    IN [stores EXCEPT ![sid].index = IndexAdd(index, new_embeddings)]

(* add_documents, lines 209-212: zip(documents, sources) stops at the      *)
(* shorter of the two                                                      *)
AppendMetadata(stores, sid, documents, sources) ==
    LET n == Min(Len(documents), Len(sources))
    IN [stores EXCEPT ![sid].documents_metadata =
            @ \o [i \in 1..n |-> ChunkRecord(documents[i], sources[i])]]

AddDocumentsEffect(stores, sid, documents, sources) ==
    AppendMetadata(AddToIndex(stores, sid, documents), sid, documents, sources)

---------------------------------------------------------------------------
(* The inputs the model offers to add_documents: the lists of chunks and   *)
(* of their sources, of equal lengths or not.                              *)
Batches ==
    { [documents |-> <<"A">>,      sources |-> <<"doc1">>],
      [documents |-> <<"A", "B">>, sources |-> <<"doc1", "doc1">>],
      [documents |-> <<"B">>,      sources |-> <<"doc2">>],
      [documents |-> <<"A", "B">>, sources |-> <<"doc1">>],
      [documents |-> <<"B">>,      sources |-> <<"doc2", "doc1">>] }

KValues == {2, 3, MaxK}

RECURSIVE SumOver(_, _)
SumOver(f, S) ==
    IF S = {} THEN 0
    ELSE LET x == CHOOSE y \in S : TRUE IN f[x] + SumOver(f, S \ {x})

(* the rows the sessions hold beyond their sample rows *)
Added(stores) ==
    SumOver([s \in DOMAIN stores |->
                IF ntotal(stores[s].index) > Len(sample_docs)
                THEN ntotal(stores[s].index) - Len(sample_docs) ELSE 0],
            DOMAIN stores)

IdleFrame ==
    [pc |-> "idle", kind |-> "", session_id |-> "", source |-> "", documents |-> <<>>,
     api_key |-> "", status |-> 0, chunks |-> 0, result |-> NoRet,
     base |-> 0, fresh |-> FALSE, concurrent |-> {}, split |-> <<>>]

Init ==
    /\ SESSION_STORES = [s \in {} |-> EmptyEntry]
    /\ svc = [h \in Handles |-> NoSvc]
    /\ ret = NoRet
    /\ req = [r \in Reqs |-> IdleFrame]
    /\ running = Nobody

---------------------------------------------------------------------------
(* Spec: method calls on RAGService instances *)

(* the rows the call before removed, when it was clear_session(sid) *)
ClearedJustBefore(last, sid) ==
    IF last.op = "clear_session" /\ last.session = sid THEN last.cleared_rows ELSE 0

(* RAGService(session_id): __init__ binds the instance to the session and  *)
(* runs init_session_store                                                 *)
New(h, sid) ==
    /\ svc[h] = NoSvc
    /\ svc' = [svc EXCEPT ![h] = sid]
    /\ SESSION_STORES' = InitSessionStore(SESSION_STORES, sid)
    /\ ret' = Returned([NoRet EXCEPT !.op = "init", !.h = h, !.session = sid,
                                     !.existed = sid \in Live,
                                     !.cleared_rows = ClearedJustBefore(ret, sid)])
    /\ UNCHANGED <<req, running>>

(* the instance goes out of scope *)
Drop(h) ==
    /\ svc[h] # NoSvc
    /\ svc' = [svc EXCEPT ![h] = NoSvc]
    /\ ret' = Returned([NoRet EXCEPT !.op = "del", !.h = h, !.session = svc[h]])
    /\ UNCHANGED <<SESSION_STORES, req, running>>

Query(h, question, max_results, env) ==
    /\ svc[h] # NoSvc
    /\ ret' = QueryOutcome(SESSION_STORES, h, svc[h], question, max_results, env)
    /\ UNCHANGED <<SESSION_STORES, svc, req, running>>

AddDocuments(h, documents, sources) ==
    LET sid == svc[h]
        r == [NoRet EXCEPT !.op = "add_documents", !.h = h, !.session = sid,
                           !.documents = documents, !.doc_sources = sources,
                           !.existed = sid \in Live]
    IN /\ sid # NoSvc
       /\ IF sid \notin Live
          THEN /\ ret' = Raised(r, MsgKeyError)
               /\ UNCHANGED SESSION_STORES
          ELSE /\ Added(SESSION_STORES) + Len(documents) <= MaxAdded
               /\ SESSION_STORES' = AddDocumentsEffect(SESSION_STORES, sid, documents, sources)
               /\ ret' = Returned([r EXCEPT !.count = Len(documents)])
       /\ UNCHANGED <<svc, req, running>>

ClearSession(sid) ==
    /\ SESSION_STORES' = IF sid \in Live THEN Remove(SESSION_STORES, sid) ELSE SESSION_STORES
    /\ ret' = Returned([NoRet EXCEPT !.op = "clear_session", !.session = sid,
                                     !.existed = sid \in Live,
                                     !.cleared_rows =
                                        IF sid \in Live
                                        THEN Len(SESSION_STORES[sid].documents_metadata)
                                        ELSE 0])
    /\ UNCHANGED <<svc, req, running>>

Next ==
    \/ \E h \in Handles, sid \in SessionIds : New(h, sid)
    \/ \E h \in Handles : Drop(h)
    \/ \E h \in Handles, q \in Questions, k \in KValues, env \in Envs : Query(h, q, k, env)
    \/ \E h \in Handles, b \in Batches : AddDocuments(h, b.documents, b.sources)
    \/ \E sid \in SessionIds : ClearSession(sid)

Spec == Init /\ [][Next]_vars

---------------------------------------------------------------------------
(* SpecHTTP: the handlers of app/main.py.  Each request is a coroutine on  *)
(* the one event loop: once resumed it runs until it finishes or reaches   *)
(* an await that suspends it, and only then can another request run.       *)

(* the positions at which a handler is suspended: upload_document awaits   *)
(* file.read(); every other await of the handlers is on a coroutine that   *)
(* runs to its end without suspending                                      *)
SuspendPointsWithAddAwait == {"read_file", "append_metadata"}

(* a variant in which the handler is also suspended between the creation   *)
(* of the session's entry and its seeding                                  *)
SuspendPointsWithSeedAwait == {"read_file", "seed"}

SuspendPoints == {"read_file"}

CanRun(r) == running = Nobody \/ running = r

(* the request in control after r has moved to position p *)
After(r, p) == IF p \in SuspendPoints \cup {"done"} THEN Nobody ELSE r

Goto(r, p, frame) ==
    /\ req' = [req EXCEPT ![r] = [frame EXCEPT !.pc = p]]
    /\ running' = After(r, p)

Respond(r, status, frame) == Goto(r, "done", [frame EXCEPT !.status = status])

(* str(uuid.uuid4()): an identifier no other request uses *)
Uuid4(r) == IF r = "r1" THEN "u1" ELSE "u2"

SessionOf(r, header) == IF header = "" THEN Uuid4(r) ELSE header

Headers == SessionIds \cup {""}

(* document_service.py: chunks whose stripped length is not above the      *)
(* minimum are dropped                                                     *)
MinChunkChars == 50
StripLen(t) == TextLen(t) - EdgeSpace(t)

RECURSIVE FilterShort(_)
FilterShort(docs) ==
    IF docs = <<>> THEN <<>>
    ELSE (IF StripLen(Head(docs)) > MinChunkChars THEN <<Head(docs)>> ELSE <<>>)
         \o FilterShort(Tail(docs))

(* What a request body or a fetched page turns out to be: its size in      *)
(* bytes, whether its text can be extracted, and the chunks the splitter   *)
(* cuts the text into.                                                     *)
Payloads ==
    { [size |-> 0, readable |-> TRUE,  chunks |-> <<>>],
      [size |-> 9, readable |-> FALSE, chunks |-> <<>>],
      [size |-> 9, readable |-> TRUE,  chunks |-> <<"tiny">>],
      [size |-> 9, readable |-> TRUE,  chunks |-> <<"tiny", "fifty", "A", "padded">>],
      [size |-> 9, readable |-> TRUE,  chunks |-> <<"A", "B", "A", "B", "A">>],
      [size |-> 9, readable |-> TRUE,  chunks |-> <<"B", "A", "B", "A", "B">>] }

FileNames == {"doc1", "doc2"}

(* a request arrives and its handler is scheduled *)
Receive(r, kind) ==
    /\ req[r].pc = "idle"
    /\ req' = [req EXCEPT ![r] = [IdleFrame EXCEPT !.pc = "start", !.kind = kind]]
    /\ UNCHANGED <<SESSION_STORES, svc, ret, running>>

(* upload_document, lines 100-114: the file type is checked, then the      *)
(* handler awaits file.read()                                              *)
UploadStart(r, header, filename, allowed) ==
    /\ req[r].pc = "start" /\ req[r].kind = "upload" /\ CanRun(r)
    /\ LET frame == [req[r] EXCEPT !.session_id = SessionOf(r, header),
                                   !.source = filename,
                                   !.fresh = SessionOf(r, header) \notin Live]
       IN IF allowed THEN Goto(r, "read_file", frame) ELSE Respond(r, 400, frame)
    /\ UNCHANGED <<SESSION_STORES, svc, ret>>

(* upload_document, lines 117-129, and add_from_file to line 127           *)
UploadRead(r, payload) ==
    /\ req[r].pc = "read_file" /\ CanRun(r)
    /\ LET documents == FilterShort(payload.chunks)
           early == [req[r] EXCEPT
                        !.concurrent = {o \in Reqs \ {r} : req[o].pc = "read_file"}]
           frame == [early EXCEPT !.split = payload.chunks, !.documents = documents]
       IN IF payload.size = 0 THEN Respond(r, 400, early)
          ELSE IF ~payload.readable THEN Respond(r, 400, early)
          ELSE IF documents = <<>> THEN Respond(r, 500, frame)
          ELSE Goto(r, "init_store", frame)
    /\ UNCHANGED <<SESSION_STORES, svc, ret>>

(* add_document_from_url, lines 74-83, and add_from_url to line 62; the    *)
(* page is fetched with the blocking requests.get                          *)
UrlStart(r, header, url, scheme_ok, fetch, payload) ==
    /\ req[r].pc = "start" /\ req[r].kind = "add_url" /\ CanRun(r)
    /\ LET documents == FilterShort(payload.chunks)
           early == [req[r] EXCEPT !.session_id = SessionOf(r, header),
                                   !.source = url,
                                   !.fresh = SessionOf(r, header) \notin Live]
           frame == [early EXCEPT !.split = payload.chunks, !.documents = documents]
       IN IF ~scheme_ok THEN Respond(r, 400, early)
          ELSE IF fetch \in {"403", "404", "timeout"} THEN Respond(r, 400, early)
          ELSE IF fetch # "ok" THEN Respond(r, 500, early)
          ELSE IF documents = <<>> THEN Respond(r, 500, frame)
          ELSE Goto(r, "init_store", frame)
    /\ UNCHANGED <<SESSION_STORES, svc, ret>>

(* get_documents, lines 157-165 *)
DocumentsStart(r, header) ==
    /\ req[r].pc = "start" /\ req[r].kind = "documents" /\ CanRun(r)
    /\ Goto(r, "init_store", [req[r] EXCEPT !.session_id = SessionOf(r, header),
                                            !.fresh = SessionOf(r, header) \notin Live])
    /\ UNCHANGED <<SESSION_STORES, svc, ret>>

(* query_finbot, lines 53-60 *)
QueryStart(r, header, api_key) ==
    /\ req[r].pc = "start" /\ req[r].kind = "query" /\ CanRun(r)
    /\ LET frame == [req[r] EXCEPT !.api_key = api_key]
       IN IF api_key = "" THEN Respond(r, 400, frame)
          ELSE Goto(r, "init_store",
                    [frame EXCEPT !.session_id = SessionOf(r, header),
                                  !.fresh = SessionOf(r, header) \notin Live])
    /\ UNCHANGED <<SESSION_STORES, svc, ret>>

(* RAGService(session_id), init_session_store lines 57-62 *)
InitStoreStep(r) ==
    /\ req[r].pc = "init_store" /\ CanRun(r)
    /\ SESSION_STORES' = EnsureEntry(SESSION_STORES, req[r].session_id)
    /\ Goto(r, "seed", req[r])
    /\ UNCHANGED <<svc, ret>>

AfterInit(kind) ==
    CASE kind = "documents" -> "list"
      [] kind = "query" -> "query"
      [] OTHER -> "index_add"

(* init_session_store lines 65-67 *)
SeedStep(r) ==
    LET sid == req[r].session_id
    IN /\ req[r].pc = "seed" /\ CanRun(r)
       /\ IF sid \notin Live
          THEN /\ Respond(r, 500, req[r])
               /\ UNCHANGED SESSION_STORES
          ELSE /\ SESSION_STORES' =
                    IF ~SESSION_STORES[sid].initialized
                    THEN [CreateSampleIndex(SESSION_STORES, sid) EXCEPT ![sid].initialized = TRUE]
                    ELSE SESSION_STORES
               /\ Goto(r, AfterInit(req[r].kind), req[r])
       /\ UNCHANGED <<svc, ret>>

(* add_documents, lines 195-206 *)
IndexAddStep(r) ==
    LET sid == req[r].session_id
    IN /\ req[r].pc = "index_add" /\ CanRun(r)
       /\ IF sid \notin Live
          THEN /\ Respond(r, 500, req[r])
               /\ UNCHANGED SESSION_STORES
          ELSE /\ SESSION_STORES' = AddToIndex(SESSION_STORES, sid, req[r].documents)
               /\ Goto(r, "append_metadata",
                       [req[r] EXCEPT !.base = ntotal(SESSION_STORES[sid].index)])
       /\ UNCHANGED <<svc, ret>>

(* add_documents, lines 209-215, with sources = [name] * len(documents) *)
AppendMetadataStep(r) ==
    LET sid == req[r].session_id
        documents == req[r].documents
        sources == [i \in 1..Len(documents) |-> req[r].source]
    IN /\ req[r].pc = "append_metadata" /\ CanRun(r)
       /\ IF sid \notin Live
          THEN /\ Respond(r, 500, req[r])
               /\ UNCHANGED SESSION_STORES
          ELSE /\ SESSION_STORES' = AppendMetadata(SESSION_STORES, sid, documents, sources)
               /\ Respond(r, 200, [req[r] EXCEPT !.chunks = Len(documents)])
       /\ UNCHANGED <<svc, ret>>

(* get_document_sources, lines 246-258 *)
ListStep(r) ==
    LET sid == req[r].session_id
    IN /\ req[r].pc = "list" /\ CanRun(r)
       /\ IF sid \notin Live THEN Respond(r, 500, req[r])
          ELSE Respond(r, 200,
                       [req[r] EXCEPT !.chunks = Len(SESSION_STORES[sid].documents_metadata)])
       /\ UNCHANGED <<SESSION_STORES, svc, ret>>

(* query_finbot, lines 61-70: an exception out of query is answered with   *)
(* 400 when its text holds "API key" and with 500 otherwise                *)
QueryStep(r, question, max_results, env) ==
    /\ req[r].pc = "query" /\ CanRun(r)
    /\ env.api_key = req[r].api_key
    /\ LET result == QueryOutcome(SESSION_STORES, r, req[r].session_id,
                                  question, max_results, env)
           frame == [req[r] EXCEPT !.result = result]
       IN IF result.outcome = "returned" THEN Respond(r, 200, frame)
          ELSE IF HasApiKey(result.error) THEN Respond(r, 400, frame)
          ELSE Respond(r, 500, frame)
    /\ UNCHANGED <<SESSION_STORES, svc, ret>>

(* clear_session, lines 237-241 *)
ClearStep(r, sid) ==
    /\ req[r].pc = "start" /\ req[r].kind = "clear" /\ CanRun(r)
    /\ SESSION_STORES' = IF sid \in Live THEN Remove(SESSION_STORES, sid) ELSE SESSION_STORES
    /\ Respond(r, 200, [req[r] EXCEPT !.session_id = sid])
    /\ UNCHANGED <<svc, ret>>

Kinds == {"upload", "add_url", "documents", "query", "clear"}

(* the upstream's answer to a key it does not accept *)
MsgKeyInvalid == <<"400", "API", "key", "not", "valid.", "Please", "pass", "a", "valid", "API", "key.">>
ApiKeys == {"", "key", "bad"}
HttpEnvs == Envs \cup {[api_key |-> "bad", ctorFails |-> {}, gen |-> GenRaises(MsgKeyInvalid)]}

NextHTTP ==
    \/ \E r \in Reqs, kind \in Kinds : Receive(r, kind)
    \/ \E r \in Reqs, header \in Headers, f \in FileNames, allowed \in BOOLEAN :
          UploadStart(r, header, f, allowed)
    \/ \E r \in Reqs, payload \in Payloads : UploadRead(r, payload)
    \/ \E r \in Reqs, header \in Headers, scheme_ok \in BOOLEAN,
          fetch \in {"ok", "403", "error"}, payload \in Payloads :
          UrlStart(r, header, "http://doc2", scheme_ok, fetch, payload)
    \/ \E r \in Reqs, header \in Headers : DocumentsStart(r, header)
    \/ \E r \in Reqs, header \in Headers, api_key \in ApiKeys : QueryStart(r, header, api_key)
    \/ \E r \in Reqs : InitStoreStep(r)
    \/ \E r \in Reqs : SeedStep(r)
    \/ \E r \in Reqs : IndexAddStep(r)
    \/ \E r \in Reqs : AppendMetadataStep(r)
    \/ \E r \in Reqs : ListStep(r)
    \/ \E r \in Reqs, env \in HttpEnvs : QueryStep(r, "q1", 3, env)
    \/ \E r \in Reqs, sid \in SessionIds : ClearStep(r, sid)

SpecHTTP == Init /\ [][NextHTTP]_vars

---------------------------------------------------------------------------
(* Properties of Spec *)

Paired(entry) ==
    /\ ntotal(entry.index) = Len(entry.documents_metadata)
    /\ \A i \in 1..Len(entry.documents_metadata) :
          i <= ntotal(entry.index)
          /\ entry.index.xb[i] = EncodeOne(entry.documents_metadata[i].text)

(* C1: in every reachable state every live session's index row count       *)
(* equals the length of its metadata, and the record at metadata position  *)
(* i is the one whose embedding is index row i.                            *)
C1_PositionalCorrespondence ==
    \A s \in Live : Paired(SESSION_STORES[s])

IsPrefixOf(a, b) == Len(a) <= Len(b) /\ \A i \in 1..Len(a) : b[i] = a[i]

(* C2: add_documents on a live session with len(chunks) = len(sources) = n *)
(* returns n; the metadata and the index each grow by exactly n; the i-th  *)
(* new metadata entry is {text: chunks[i], source: sources[i]} and the     *)
(* i-th new index row is the embedding of chunks[i]; the entries and rows  *)
(* that existed before are unchanged.                                      *)
C2_AddAppendsExactly ==
    [][ (/\ ret'.op = "add_documents"
         /\ ret'.existed
         /\ Len(ret'.documents) = Len(ret'.doc_sources))
        => LET sid == ret'.session
               n == Len(ret'.documents)
               old == SESSION_STORES[sid]
               new == SESSION_STORES'[sid]
               m0 == Len(old.documents_metadata)
               r0 == ntotal(old.index)
           IN /\ ret'.outcome = "returned"
              /\ ret'.count = n
              /\ sid \in DOMAIN SESSION_STORES'
              /\ Len(new.documents_metadata) = m0 + n
              /\ ntotal(new.index) = r0 + n
              /\ IsPrefixOf(old.documents_metadata, new.documents_metadata)
              /\ IsPrefixOf(old.index.xb, new.index.xb)
              /\ \A i \in 1..n :
                    /\ new.documents_metadata[m0 + i]
                         = [text |-> ret'.documents[i], source |-> ret'.doc_sources[i]]
                    /\ new.index.xb[r0 + i] = EncodeOne(ret'.documents[i])
      ]_vars

C2_Witness ==
    /\ ret.op = "add_documents" /\ ret.outcome = "returned" /\ ret.count = 2
    /\ ret.documents = <<"A", "B">> /\ ret.doc_sources = <<"doc1", "doc1">>
    /\ Len(SESSION_STORES[ret.session].documents_metadata) = Len(sample_docs) + 2
    /\ SESSION_STORES[ret.session].documents_metadata[Len(sample_docs) + 2]
         = [text |-> "B", source |-> "doc1"]

(* C3: add_documents with len(chunks) # len(sources) fails with            *)
(* InvalidInput and changes neither the index nor the metadata.            *)
C3_MismatchRejected ==
    [][ (/\ ret'.op = "add_documents"
         /\ ret'.existed
         /\ Len(ret'.documents) # Len(ret'.doc_sources))
        => (/\ ret'.outcome = "raised"
            /\ SESSION_STORES' = SESSION_STORES)
      ]_vars

(* C5: a query on a session with totalRows >= 1 rows and k >= 1 returns at *)
(* most min(k, totalRows) chunks; when totalRows < k it returns every row  *)
(* exactly once and nothing else.                                          *)
CarriesRetrieval(r) ==
    /\ r.op = "query" /\ r.outcome = "returned"
    /\ r.answer.kind \in {"generated", "quota_preview"}

C5_AtMostMinKRows ==
    CarriesRetrieval(ret)
    => LET totalRows == ntotal(SESSION_STORES[ret.session].index)
       IN /\ Len(ret.sources) <= Min(ret.k, totalRows)
          /\ totalRows < ret.k
             => /\ Len(ret.hits) = totalRows
                /\ \A row \in 0..(totalRows - 1) :
                      Cardinality({i \in 1..Len(ret.hits) : ret.hits[i] = row}) = 1

(* C6: every source a query returns is the source of the record stored in  *)
(* that session at a row the search returned, 0 <= row < metadata length,  *)
(* in retrieval order.                                                     *)
C6_SourcesFromReturnedRows ==
    CarriesRetrieval(ret)
    => LET metadata == SESSION_STORES[ret.session].documents_metadata
       IN /\ Len(ret.sources) = Len(ret.hits)
          /\ \A i \in 1..Len(ret.hits) :
                /\ 0 <= ret.hits[i] /\ ret.hits[i] < Len(metadata)
                /\ ret.sources[i] = metadata[ret.hits[i] + 1].source

SeededEntry(entry) ==
    /\ entry.initialized
    /\ ~entry.index.isNone
    /\ ntotal(entry.index) = 10
    /\ entry.index.xb = encode(sample_docs)
    /\ Len(entry.documents_metadata) = 10
    /\ \A i \in 1..10 :
          entry.documents_metadata[i] = [text |-> sample_docs[i], source |-> "FAQ"]

(* C7: clear(S) followed by get(S) yields a session whose metadata is      *)
(* exactly the default corpus (10 entries, each of source "FAQ") and whose *)
(* index has exactly 10 rows, whatever S held before.                      *)
C7_ClearThenGetIsFresh ==
    [][ (/\ ret'.op = "init"
         /\ \/ (ret.op = "clear_session" /\ ret.session = ret'.session)
            \/ ret'.session \notin Live)
        => /\ ret'.session \in DOMAIN SESSION_STORES'
           /\ SeededEntry(SESSION_STORES'[ret'.session])
      ]_vars

C7_Witness ==
    /\ ret.op = "init" /\ ret.cleared_rows > 10
    /\ SeededEntry(SESSION_STORES[ret.session])

(* C8: get on an existing session leaves its index and metadata unchanged: *)
(* the corpus is not seeded again and added documents are kept.            *)
C8_GetIsIdempotent ==
    [][ (ret'.op = "init" /\ ret'.session \in Live)
        => /\ ret'.session \in DOMAIN SESSION_STORES'
           /\ SESSION_STORES'[ret'.session] = SESSION_STORES[ret'.session]
      ]_vars

C8_Witness ==
    /\ ret.op = "init" /\ ret.existed
    /\ Len(SESSION_STORES[ret.session].documents_metadata) > 10
    /\ Cardinality({i \in 1..Len(SESSION_STORES[ret.session].documents_metadata) :
            SESSION_STORES[ret.session].documents_metadata[i].source = "FAQ"}) = 10

(* C9: a query on a session that was just cleared and is not seeded again  *)
(* returns the empty-knowledge-base result (sources = [], confidence 0.0)  *)
(* and does not raise.                                                     *)
C9_QueryOnClearedSession ==
    (ret.op = "query" /\ ~ret.existed)
    => /\ ret.outcome = "returned"
       /\ ret.answer.kind = "no_documents"
       /\ ret.sources = <<>>
       /\ ret.confidence = Zero

RateLimited(msg) == Contains(msg, "429") \/ Contains(LowerMsg(msg), "quota")

(* C10: when generation fails with a rate-limit or quota error the query   *)
(* returns a result whose answer holds the first 200 characters of the     *)
(* retrieved context, whose sources are the retrieved sources in order and *)
(* whose confidence is the mean score of the retrieved neighbours.         *)
C10_RateLimitKeepsConfidence ==
    (/\ ret.op = "query" /\ ret.existed
     /\ ret.gen.kind = "invoke" /\ RateLimited(ret.gen.msg))
    => LET entry == SESSION_STORES[ret.session]
           found == IndexSearch(entry.index, EncodeOne(ret.question), ret.k)
           docs == RelevantDocs(entry.documents_metadata, found.indices)
       IN /\ ret.outcome = "returned"
          /\ ret.answer.kind = "quota_preview"
          /\ ret.answer.context = Prefix(JoinLines(Texts(docs)), 200)
          /\ ret.sources = Sources(docs)
          /\ SameFloat(ret.confidence, Mean(found.scores))

(* the call reached generation: the session had an entry with an index     *)
ReachedGeneration(r) ==
    r.op = "query" /\ r.existed /\ r.answer.kind # "no_documents"

(* C11: a generation error that is not a rate-limit or quota error yields  *)
(* a returned result (no exception) whose answer is the apology carrying   *)
(* the error's text, with sources = [] and confidence 0.0, whatever the    *)
(* search retrieved.                                                       *)
C11_OtherErrorsApologize ==
    LET error_msg == IF ret.llm.ok THEN ret.gen.msg ELSE ret.llm.error
    IN (/\ ReachedGeneration(ret)
        /\ (~ret.llm.ok \/ ret.gen.kind \in {"invoke", "strip"})
        /\ error_msg \notin {Msg429, MsgQuota})
       => /\ ret.outcome = "returned"
          /\ ret.answer.kind = "apology"
          /\ ret.answer.error = error_msg
          /\ ret.sources = <<>>
          /\ ret.confidence = Zero

C11_Witness ==
    /\ ReachedGeneration(ret) /\ ret.llm.ok
    /\ ret.gen = GenRaises(Msg500)
    /\ Len(ret.hits) = 3
    /\ ret.answer.kind = "apology" /\ ret.answer.error = Msg500
    /\ ret.sources = <<>>

(* C12: the candidates are tried in the fixed preference order; a failed   *)
(* construction moves on to the next candidate; the model used is the      *)
(* first candidate whose construction succeeds; generation is invoked at   *)
(* most once per query, so a failure of llm.invoke is answered at once and *)
(* no later candidate is tried; the "could not initialize any model" error *)
(* is raised exactly when every candidate fails to construct.              *)
C12_ModelFallbackOrder ==
    ReachedGeneration(ret)
    => LET llm == ret.llm
           tried == llm.tried
           n == Len(tried)
           all == Len(models_to_try)
       IN /\ n <= all
          /\ \A i \in 1..n : tried[i] = models_to_try[i]
          /\ \A i \in 1..(n - 1) : tried[i] \in ret.ctor_fails
          /\ llm.ok => /\ n >= 1
                       /\ llm.model = tried[n]
                       /\ llm.model \notin ret.ctor_fails
          /\ ret.invocations = (IF llm.ok THEN 1 ELSE 0)
          /\ (llm.ok /\ ret.gen.kind = "invoke")
             => /\ ret.outcome = "returned"
                /\ ret.answer.kind \in {"apology", "quota_preview"}
                /\ ret.answer.model = ""
          /\ (~llm.ok /\ llm.error = MsgNoModel)
             <=> (n = all /\ \A i \in 1..all : models_to_try[i] \in ret.ctor_fails)

C12_Witness ==
    /\ ReachedGeneration(ret)
    /\ ret.ctor_fails = {models_to_try[1], models_to_try[2]}
    /\ ret.llm.ok /\ ret.llm.model = models_to_try[3]
    /\ ret.llm.tried = <<models_to_try[1], models_to_try[2], models_to_try[3]>>
    /\ ret.invocations = 1
    /\ ret.answer.kind = "generated" /\ ret.answer.model = models_to_try[3]

(* the texts a session holds *)
TextsOf(entry) == {entry.documents_metadata[i].text : i \in 1..Len(entry.documents_metadata)}

OthersUntouched ==
    \A b \in Live :
        b # ret'.session
        => /\ b \in DOMAIN SESSION_STORES'
           /\ SESSION_STORES'[b] = SESSION_STORES[b]

OwnTextsOnly ==
    CarriesRetrieval(ret)
    => \A i \in 1..Len(ret.answer.context) :
          \/ ret.answer.context[i].text = "\n"
          \/ ret.answer.context[i].text \in TextsOf(SESSION_STORES[ret.session])

(* C16: an operation addressed to session A (creation and seeding,         *)
(* add_documents, query, clear) leaves every other live session B in the   *)
(* store with its index and metadata unchanged; clear(A) removes only A;   *)
(* a query on B retrieves only texts B holds, never a document added to A. *)
C16_SessionIsolation ==
    /\ [][OthersUntouched]_vars
    /\ []OwnTextsOnly

C16_Witness ==
    /\ Live = {"s1", "s2"}
    /\ "A" \in TextsOf(SESSION_STORES["s1"])
    /\ "A" \notin TextsOf(SESSION_STORES["s2"])
    /\ ret.op = "query" /\ ret.session = "s2" /\ ret.k = MaxK
    /\ ret.answer.kind = "generated"
    /\ \A i \in 1..Len(ret.answer.context) : ret.answer.context[i].text # "A"

---------------------------------------------------------------------------
(* Properties of SpecHTTP *)

IsAdd(frame) == frame.kind \in {"upload", "add_url"}

AddedBy(frames, sid) ==
    SumOver([r \in Reqs |->
                IF IsAdd(frames[r]) /\ frames[r].pc = "done" /\ frames[r].status = 200
                   /\ frames[r].session_id = sid
                THEN frames[r].chunks ELSE 0],
            Reqs)

(* whenever no handler is in the middle of a run, every session is seeded, *)
(* its index and metadata are paired row by row, and it holds the sample   *)
(* rows plus exactly the chunks of the add requests answered so far        *)
SessionsConsistent ==
    running = Nobody
    => \A s \in Live :
          /\ SESSION_STORES[s].initialized
          /\ Paired(SESSION_STORES[s])
          /\ Len(SESSION_STORES[s].documents_metadata)
               = Len(sample_docs) + AddedBy(req, s)

(* the add request that has just been answered finds its chunks in the     *)
(* rows it appended: contiguous, in order, each beside its own embedding   *)
BatchInPlace(r) ==
    (req[r].pc = "append_metadata" /\ req'[r].pc = "done" /\ req'[r].status = 200)
    => LET entry == SESSION_STORES'[req[r].session_id]
           base == req[r].base
           documents == req[r].documents
       IN /\ ntotal(entry.index) >= base + Len(documents)
          /\ Len(entry.documents_metadata) >= base + Len(documents)
          /\ \A i \in 1..Len(documents) :
                /\ entry.index.xb[base + i] = EncodeOne(documents[i])
                /\ entry.documents_metadata[base + i]
                     = [text |-> documents[i], source |-> req[r].source]

(* C4: two add requests in flight against the same session never           *)
(* interleave their index-append and metadata-append steps: index and      *)
(* metadata lengths never diverge, each request's rows are contiguous and  *)
(* correctly paired, and two requests of 5 chunks leave exactly 10 new     *)
(* metadata entries and 10 new index rows.                                 *)
C4_ConcurrentAddsSerialized ==
    /\ []SessionsConsistent
    /\ [][\A r \in Reqs : BatchInPlace(r)]_vars

C4_Witness ==
    /\ \A r \in Reqs :
          /\ req[r].pc = "done" /\ req[r].kind = "upload" /\ req[r].status = 200
          /\ req[r].chunks = 5 /\ req[r].session_id = "s1" /\ req[r].fresh
    /\ req["r1"].documents # req["r2"].documents
    /\ "r2" \in req["r1"].concurrent
    /\ Len(SESSION_STORES["s1"].documents_metadata) = Len(sample_docs) + 10
    /\ ntotal(SESSION_STORES["s1"].index) = Len(sample_docs) + 10

(* a query request that has been answered *)
AnsweredQuery(r) == req[r].kind = "query" /\ req[r].pc = "done"

(* C13: on the query path the "no model could be initialized" and the      *)
(* "API key is required" conditions are answered with HTTP 400 and never   *)
(* with a 200 result whose answer carries the explanation; every other     *)
(* upstream failure is answered with a 200 result.                         *)
C13_CredentialErrorsAreHard ==
    \A r \in Reqs :
        AnsweredQuery(r)
        => LET result == req[r].result
           IN /\ (req[r].api_key = "" \/ (result.op = "query" /\ ~result.llm.ok))
                 => /\ req[r].status = 400
                    /\ result.outcome # "returned"
              /\ (result.op = "query" /\ result.llm.ok /\ result.gen.kind # "ok")
                 => /\ req[r].status = 200
                    /\ result.outcome = "returned"

(* the step taken by query request r *)
QueryRequestStep(r) == req[r].kind = "query" /\ req'[r] # req[r]

(* C14: a query whose credentials are missing or invalid fails at once     *)
(* with the credential error, before any retrieval work: the request is    *)
(* answered 400 in its first step, no question is embedded, no index is    *)
(* searched, no session is created or seeded, and the session store is     *)
(* unchanged.                                                              *)
C14_BadCredentialsFailFast ==
    [][ \A r \in Reqs :
          (QueryRequestStep(r) /\ req'[r].api_key \in {"", "bad"})
          => /\ req'[r].pc = "done"
             /\ req'[r].status = 400
             /\ req'[r].result.op = ""
             /\ SESSION_STORES' = SESSION_STORES
      ]_vars

(* an add request whose text has been split into chunks and filtered *)
Filtered(r) == IsAdd(req[r]) /\ req[r].split # <<>>

AtLeastFifty(chunk) == StripLen(chunk) >= 50

(* C15: at ingestion a chunk is discarded if and only if its length after  *)
(* trimming whitespace is below 50 characters, so a chunk of trimmed       *)
(* length exactly 50 is kept; the URL and the file paths apply the same    *)
(* rule.                                                                   *)
C15_KeepsFiftyAndLonger ==
    \A r \in Reqs :
        Filtered(r) => req[r].documents = SelectSeq(req[r].split, AtLeastFifty)

SeedPrefix(entry) ==
    /\ entry.initialized
    /\ ~entry.index.isNone
    /\ Len(entry.documents_metadata) >= 10
    /\ \A i \in 1..10 :
          entry.documents_metadata[i] = [text |-> sample_docs[i], source |-> "FAQ"]

SeededAtRest == running = Nobody => \A s \in Live : SeedPrefix(SESSION_STORES[s])

(* the step is the clear request r removing session s *)
ClearsSession(r, s) ==
    /\ req[r].kind = "clear" /\ req[r].pc = "start"
    /\ req'[r].pc = "done" /\ req'[r].session_id = s

OnlyAppendsOrClears ==
    \A s \in Live :
        IF s \in DOMAIN SESSION_STORES'
        THEN /\ IsPrefixOf(SESSION_STORES[s].documents_metadata,
                           SESSION_STORES'[s].documents_metadata)
             /\ IsPrefixOf(SESSION_STORES[s].index.xb, SESSION_STORES'[s].index.xb)
        ELSE \E r \in Reqs : ClearsSession(r, s)

(* C17: whenever no handler is in the middle of a run, every session in    *)
(* the store is initialized, has an index, and has at least 10 metadata    *)
(* entries of which the first 10 are the sample records in their fixed     *)
(* order with source "FAQ"; a step only appends to a session's metadata    *)
(* and index, never removing, reordering or rewriting an entry, unless it  *)
(* is a clear of that session.                                             *)
C17_SeedPrefix ==
    /\ []SeededAtRest
    /\ [][OnlyAppendsOrClears]_vars

C17_Witness ==
    /\ running = Nobody
    /\ "s1" \in Live
    /\ SeedPrefix(SESSION_STORES["s1"])
    /\ Len(SESSION_STORES["s1"].documents_metadata) = 15
    /\ SESSION_STORES["s1"].documents_metadata[11] = [text |-> "A", source |-> "doc1"]
    /\ req["r1"].kind = "clear" /\ req["r1"].pc = "done" /\ req["r1"].session_id = "s1"
    /\ req["r2"].kind = "upload" /\ req["r2"].pc = "done" /\ req["r2"].status = 200
    /\ req["r2"].fresh /\ req["r2"].source = "doc1"

====
